---- MODULE Spec2Model ----
(***************************************************************************)
(* Model of scripts/check_weather_stations.py: the weather-station         *)
(* provider comparison (target resolution, five provider adapters, the     *)
(* station aggregation of main's step 3 and the report of steps 4 and 5).  *)
(*                                                                         *)
(* Coordinates are integers in units of 0.00002 degree (50000 units per    *)
(* degree), so that the 4-decimal StationKey grid (0.0001 degree) is 5     *)
(* units wide and no coordinate lies exactly between two grid points, as   *)
(* is the case for binary floating point values.  Distances are integers   *)
(* in metres; distance_km of a station is kept in tenths of a kilometre.   *)
(***************************************************************************)
EXTENDS Integers, Sequences, FiniteSets, TLC

VARIABLES pc, argv, lat, lon, providers, station_providers, all_stations,
          sorted_stations, diag, summary, header, rows, netlog, exit_code,
          response

vars == <<pc, argv, lat, lon, providers, station_providers, all_stations,
          sorted_stations, diag, summary, header, rows, netlog, exit_code,
          response>>

----------------------------------------------------------------------------
(* Bounds of the model *)

\* longest record list a provider response carries
MaxRecords == 2

\* coordinate differences above FarUnits (0.6 degree) saturate the distance
FarUnits == 30000

\* half-width, in units, of the coordinate window of the StationKey runs
KeyWindow == 6

----------------------------------------------------------------------------
(* Values *)

\* Python's None, as a station name or a JSON null
None == "<None>"

\* a key that is absent from a JSON object
Missing == "<missing>"

\* lat/lon before the target is resolved
Unset == 0 - 999999999

Abs(x) == IF x < 0 THEN 0 - x ELSE x

Deg(d) == d * 50000

Tenths(t) == t * 5000

SeqsUpTo(S, n) == UNION { [1..k -> S] : k \in 0..n }

\* SEARCH_RADIUS_KM = 50
SEARCH_RADIUS_KM == 50

\* the order of the keys of main's providers dict
provider_names == <<"FFVL Beacons", "Pioupiou", "AWC METAR", "NWS", "BOM">>

ProviderSet == { provider_names[i] : i \in 1..Len(provider_names) }

----------------------------------------------------------------------------
(* haversine_distance *)

\* 1000 * cos(d degrees), d = 0..90
CosTable ==
  << 1000, 1000, 999, 999, 998, 996, 995, 993, 990, 988, 985, 982, 978, 974,
     970, 966, 961, 956, 951, 946, 940, 934, 927, 921, 914, 906, 899, 891,
     883, 875, 866, 857, 848, 839, 829, 819, 809, 799, 788, 777, 766, 755,
     743, 731, 719, 707, 695, 682, 669, 656, 643, 629, 616, 602, 588, 574,
     559, 545, 530, 515, 500, 485, 469, 454, 438, 423, 407, 391, 375, 358,
     342, 326, 309, 292, 276, 259, 242, 225, 208, 191, 174, 156, 139, 122,
     105, 87, 70, 52, 35, 17, 0 >>

CosMilli(la) ==
  LET d == (Abs(la) + 25000) \div 50000
  IN  IF d > 90 THEN 0 ELSE CosTable[d + 1]

RECURSIVE ISqrtSearch(_, _, _)
ISqrtSearch(n, lo, hi) ==
  IF lo >= hi THEN lo
  ELSE LET mid == (lo + hi + 1) \div 2
       IN  IF mid * mid <= n THEN ISqrtSearch(n, mid, hi)
           ELSE ISqrtSearch(n, lo, mid - 1)

ISqrt(n) == ISqrtSearch(n, 0, 46340)

\* metres of a length given in coordinate units along a meridian:
\* 6371 km * pi / 180 / 50000 = 2.2239 m
UnitsToMetres(u) == (u * 22239) \div 10000

\* Great-circle distance in metres.  Within FarUnits of the target the
\* haversine formula agrees with the flat-earth form sqrt(dlat^2 +
\* (cos(lat1) dlon)^2) to a few centimetres; beyond FarUnits the result
\* saturates at the distance of FarUnits, which is above the search radius.
haversine_distance(lat1, lon1, lat2, lon2) ==
  LET dlat == Abs(lat2 - lat1)
      dlon == Abs(lon2 - lon1)
      dx   == IF dlon > 20 * FarUnits THEN FarUnits + 1
              ELSE (dlon * CosMilli(lat1)) \div 1000
  IN  IF dlat > FarUnits \/ dx > FarUnits THEN UnitsToMetres(FarUnits)
      ELSE UnitsToMetres(ISqrt(dlat * dlat + dx * dx))

\* round(distance, 1) of a distance in km: metres to tenths of a kilometre
Round1(m) == (m + 50) \div 100

----------------------------------------------------------------------------
(* Provider responses *)

\* a record of a provider's JSON list: c tells whether the coordinate
\* fields are present ("ok"), JSON null ("null") or absent ("missing")
RawRecord(c, la, lo, n) == [c |-> c, lat |-> la, lon |-> lo, name |-> n]

\* what one HTTP exchange can give: a transport error, a non-2xx status,
\* a body that is not JSON, or a JSON list of records
HttpResponses(pool) ==
  { [kind |-> k, data |-> <<>>] : k \in {"neterr", "http_error", "badjson"} }
    \cup { [kind |-> "ok", data |-> d] : d \in SeqsUpTo(pool, MaxRecords) }

Station(n, la, lo, d) == [name |-> n, lat |-> la, lon |-> lo, distance_km |-> d]

\* a request as the log of the network keeps it, with how it ended: "ok"
\* (2xx and a JSON body), "404", or "fail" (no answer, another status, or a
\* body that is not JSON)
Request(p, e, kind) ==
  [provider |-> p, endpoint |-> e,
   outcome  |-> IF kind \in {"ok", "404"} THEN kind ELSE "fail"]

\* the value an adapter's body leaves behind: the stations list as appended
\* so far, whether the except branch ran, and the requests it issued
Outcome(st, err, note, reqs) ==
  [stations |-> st, error |-> err, note |-> note, requests |-> reqs]

----------------------------------------------------------------------------
(* The record loops of the adapters *)

Parsed(act, la, lo, n) == [act |-> act, lat |-> la, lon |-> lo, name |-> n]

\* query_ffvl: float(beacon.get('latitude', 0)) and .get('longitude', 0):
\* an absent key reads as 0, a JSON null makes float() raise TypeError
ffvl_record(rec) ==
  LET n == IF rec.name = Missing THEN "Unknown" ELSE rec.name
  IN  CASE rec.c = "null"    -> Parsed("raise", 0, 0, n)
        [] rec.c = "missing" -> Parsed("station", 0, 0, n)
        [] OTHER             -> Parsed("station", rec.lat, rec.lon, n)

\* query_pioupiou: meta.get('latitude') is None for an absent key and for a
\* JSON null alike, and the record is skipped
pioupiou_record(rec) ==
  LET n == IF rec.name = Missing THEN "Pioupiou Unknown" ELSE rec.name
  IN  IF rec.c \in {"null", "missing"} THEN Parsed("skip", 0, 0, n)
      ELSE Parsed("station", rec.lat, rec.lon, n)

\* query_awc_metar: as query_pioupiou; the name is an f-string, always a str
awc_record(rec) ==
  LET n == CASE rec.name = Missing -> "Unknown (N/A)"
             [] rec.name = None    -> "None (N/A)"
             [] OTHER              -> rec.name
  IN  IF rec.c \in {"null", "missing"} THEN Parsed("skip", 0, 0, n)
      ELSE Parsed("station", rec.lat, rec.lon, n)

\* query_nws: geometry.get('coordinates', []) is [] for an absent key (the
\* record is skipped) and None for a JSON null, on which len() raises
nws_record(rec) ==
  LET n == IF rec.name = Missing THEN "Unknown" ELSE rec.name
  IN  CASE rec.c = "missing" -> Parsed("skip", 0, 0, n)
        [] rec.c = "null"    -> Parsed("raise", 0, 0, n)
        [] OTHER             -> Parsed("station", rec.lat, rec.lon, n)

\* "for ... in data:" with the distance filter.  acc is the stations list,
\* appended to in place: what was appended before an exception stays in it.
RECURSIVE FilterLoop(_, _, _, _, _, _)
FilterLoop(parsed, i, acc, la, lo, radius_km) ==
  IF i > Len(parsed) THEN [stations |-> acc, raised |-> FALSE]
  ELSE LET r == parsed[i]
       IN  CASE r.act = "raise" -> [stations |-> acc, raised |-> TRUE]
             [] r.act = "skip"  ->
                  FilterLoop(parsed, i + 1, acc, la, lo, radius_km)
             [] OTHER ->
                  LET distance == haversine_distance(la, lo, r.lat, r.lon)
                  IN  IF distance <= radius_km * 1000
                      THEN FilterLoop(parsed, i + 1,
                             Append(acc, Station(r.name, r.lat, r.lon,
                                                 Round1(distance))),
                             la, lo, radius_km)
                      ELSE FilterLoop(parsed, i + 1, acc, la, lo, radius_km)

----------------------------------------------------------------------------
(* The provider adapters *)

FFVL_API_KEY == "12fbb9720455a2abb825c29233ac8bd0"

\* try: request, raise_for_status, json, loop; except Exception: print
query_ffvl(la, lo, radius_km, resp) ==
  IF FFVL_API_KEY = "" \/ FFVL_API_KEY = "your_ffvl_api_key_here"
  THEN Outcome(<<>>, FALSE, TRUE, <<>>)
  ELSE LET req == Request("FFVL Beacons", "balises/list", resp.kind)
       IN  IF resp.kind # "ok" THEN Outcome(<<>>, TRUE, FALSE, <<req>>)
           ELSE LET r == FilterLoop([i \in DOMAIN resp.data |->
                                       ffvl_record(resp.data[i])],
                                    1, <<>>, la, lo, radius_km)
                IN  Outcome(r.stations, r.raised, FALSE, <<req>>)

query_pioupiou(la, lo, radius_km, resp) ==
  LET req == Request("Pioupiou", "live-with-meta/all", resp.kind)
  IN  IF resp.kind # "ok" THEN Outcome(<<>>, TRUE, FALSE, <<req>>)
      ELSE LET r == FilterLoop([i \in DOMAIN resp.data |->
                                  pioupiou_record(resp.data[i])],
                               1, <<>>, la, lo, radius_km)
           IN  Outcome(r.stations, r.raised, FALSE, <<req>>)

\* the bounding box only shapes the request; the exact filter follows
query_awc_metar(la, lo, radius_km, resp) ==
  LET req == Request("AWC METAR", "metar?bbox", resp.kind)
  IN  IF resp.kind # "ok" THEN Outcome(<<>>, TRUE, FALSE, <<req>>)
      ELSE LET r == FilterLoop([i \in DOMAIN resp.data |->
                                  awc_record(resp.data[i])],
                               1, <<>>, la, lo, radius_km)
           IN  Outcome(r.stations, r.raised, FALSE, <<req>>)

\* in_nws_coverage with the continental box reaching up to 51 degrees
in_nws_coverage_to51(la, lo) ==
  \/ (Deg(0 - 125) <= lo /\ lo <= Deg(0 - 67) /\ Deg(24) <= la /\ la <= Deg(51))
  \/ (Deg(0 - 180) <= lo /\ lo <= Deg(0 - 130) /\ Deg(51) <= la /\ la <= Deg(72))
  \/ (Deg(0 - 178) <= lo /\ lo <= Deg(0 - 154) /\ Deg(18) <= la /\ la <= Deg(29))

\* the geographic check of query_nws: continental US, Alaska, Hawaii
in_nws_coverage(la, lo) ==
  \/ (Deg(0 - 125) <= lo /\ lo <= Deg(0 - 67) /\ Deg(24) <= la /\ la <= Deg(50))
  \/ (Deg(0 - 180) <= lo /\ lo <= Deg(0 - 130) /\ Deg(51) <= la /\ la <= Deg(72))
  \/ (Deg(0 - 178) <= lo /\ lo <= Deg(0 - 154) /\ Deg(18) <= la /\ la <= Deg(29))

\* what the points endpoint can give: the kinds of HttpResponses, a 404,
\* and a JSON body with or without properties.observationStations
PointsResponses ==
  { [kind |-> k, url |-> FALSE] :
      k \in {"neterr", "http_error", "badjson", "404", "ok"} }
    \cup { [kind |-> "ok", url |-> TRUE] }

\* the network answers only the requests that are issued: there is one
\* (unread) answer where query_nws sends nothing
NoAnswer == [kind |-> "neterr", data |-> <<>>]

PointsAnswers(la, lo) ==
  IF in_nws_coverage(la, lo) THEN PointsResponses
  ELSE {[kind |-> "neterr", url |-> FALSE]}

query_nws(la, lo, radius_km, resp1, resp2) ==
  IF ~in_nws_coverage(la, lo) THEN Outcome(<<>>, FALSE, FALSE, <<>>)
  ELSE LET req1 == Request("NWS", "points", resp1.kind)
           req2 == Request("NWS", "observationStations", resp2.kind)
       IN  CASE resp1.kind = "404" -> Outcome(<<>>, FALSE, FALSE, <<req1>>)
             [] resp1.kind # "ok"  -> Outcome(<<>>, TRUE, FALSE, <<req1>>)
             [] ~resp1.url         -> Outcome(<<>>, FALSE, FALSE, <<req1>>)
             [] resp2.kind # "ok"  -> Outcome(<<>>, TRUE, FALSE, <<req1, req2>>)
             [] OTHER ->
                  LET r == FilterLoop([i \in DOMAIN resp2.data |->
                                         nws_record(resp2.data[i])],
                                      1, <<>>, la, lo, radius_km)
                  IN  Outcome(r.stations, r.raised, FALSE, <<req1, req2>>)

\* the geographic check of query_bom: Australia
in_bom_coverage(la, lo) ==
  Deg(113) <= lo /\ lo <= Deg(154) /\ Deg(0 - 44) <= la /\ la <= Deg(0 - 10)

\* query_bom without its envelope check
query_bom_unchecked(la, lo, radius_km) == Outcome(<<>>, FALSE, TRUE, <<>>)

\* the stub: the envelope check, then the note; no request either way
query_bom(la, lo, radius_km) ==
  IF ~in_bom_coverage(la, lo) THEN Outcome(<<>>, FALSE, FALSE, <<>>)
  ELSE Outcome(<<>>, FALSE, TRUE, <<>>)

----------------------------------------------------------------------------
(* Step 3 of main: the station-to-provider mapping *)

\* Fmt4f with the digits after the fourth cut off instead of rounded
Fmt4f_truncated(x) == [neg |-> x < 0, mag |-> Abs(x) \div 5]

\* f"{x:.4f}": the sign, and the magnitude rounded to the nearest 0.0001
\* degree (5 units).  A negative value keeps its sign when it rounds to
\* zero: f"{-0.00002:.4f}" is "-0.0000".
Fmt4f(x) == [neg |-> x < 0, mag |-> (Abs(x) + 2) \div 5]

\* station_key = f"{station['lat']:.4f},{station['lon']:.4f}"
station_key(station) == <<Fmt4f(station.lat), Fmt4f(station.lon)>>

\* the two dicts of step 3; all_stations keeps its insertion order
Agg(sp, al) == [station_providers |-> sp, all_stations |-> al]

HasKey(al, key) == \E i \in 1..Len(al) : al[i].key = key

\* MergeStation with the provider recorded only when the key is new
MergeStation_NewKeyOnly(agg, provider_name, station) ==
  LET key == station_key(station)
      sp  == agg.station_providers
      al  == agg.all_stations
  IN  Agg(IF key \in DOMAIN sp THEN sp ELSE sp @@ (key :> {provider_name}),
          IF HasKey(al, key) THEN al
          ELSE Append(al, [key |-> key, station |-> station]))

\* MergeStation with the entry overwritten by every record of its key
MergeStation_LastWins(agg, provider_name, station) ==
  LET key == station_key(station)
      sp  == agg.station_providers
      al  == agg.all_stations
  IN  Agg(IF key \in DOMAIN sp
          THEN [sp EXCEPT ![key] = @ \cup {provider_name}]
          ELSE sp @@ (key :> {provider_name}),
          IF HasKey(al, key)
          THEN [i \in 1..Len(al) |->
                  IF al[i].key = key THEN [key |-> key, station |-> station]
                  ELSE al[i]]
          ELSE Append(al, [key |-> key, station |-> station]))

\* the body of the inner loop: add the provider to the key's set, and keep
\* the station as the key's entry when the key is new
MergeStation(agg, provider_name, station) ==
  LET key == station_key(station)
      sp  == agg.station_providers
      al  == agg.all_stations
  IN  Agg(IF key \in DOMAIN sp
          THEN [sp EXCEPT ![key] = @ \cup {provider_name}]
          ELSE sp @@ (key :> {provider_name}),
          IF HasKey(al, key) THEN al
          ELSE Append(al, [key |-> key, station |-> station]))

RECURSIVE MergeStations(_, _, _, _)
MergeStations(agg, provider_name, stations, i) ==
  IF i > Len(stations) THEN agg
  ELSE MergeStations(MergeStation(agg, provider_name, stations[i]),
                     provider_name, stations, i + 1)

\* the outer loop, over the providers in the order given
RECURSIVE MergeFrom(_, _, _, _)
MergeFrom(agg, order, provs, j) ==
  IF j > Len(order) THEN agg
  ELSE MergeFrom(MergeStations(agg, order[j], provs[order[j]], 1),
                 order, provs, j + 1)

Merge(order, provs) == MergeFrom(Agg(<<>>, <<>>), order, provs, 1)

----------------------------------------------------------------------------
(* Steps 4 and 5 of main: the summary and the table *)

\* sorted(all_stations.items(), key=lambda x: x[1]['distance_km']): Python's
\* sort is stable, items of equal distance keep their order
InsertByDistance(sorted, item) ==
  LET k == Cardinality({ i \in 1..Len(sorted) :
                           sorted[i].station.distance_km
                             <= item.station.distance_km })
  IN  SubSeq(sorted, 1, k) \o <<item>> \o SubSeq(sorted, k + 1, Len(sorted))

RECURSIVE SortFrom(_, _, _)
SortFrom(items, i, acc) ==
  IF i > Len(items) THEN acc
  ELSE SortFrom(items, i + 1, InsertByDistance(acc, items[i]))

SortByDistance(items) == SortFrom(items, 1, <<>>)

\* station['name'][:30]; the names of the model are shorter than 30
Truncate30(name) == name

\* one row: name, distance, and a mark per provider of provider_names
Row(item, sp) ==
  [name     |-> Truncate30(item.station.name),
   distance |-> item.station.distance_km,
   checks   |-> [i \in 1..Len(provider_names) |->
                   provider_names[i] \in sp[item.key]]]

\* the loop over sorted_stations: subscripting a name that is None raises
\* TypeError, which nothing catches; the rows printed before it stay printed
RECURSIVE PrintRows(_, _, _, _)
PrintRows(sorted, sp, i, acc) ==
  IF i > Len(sorted) THEN [rows |-> acc, raised |-> FALSE]
  ELSE IF sorted[i].station.name = None THEN [rows |-> acc, raised |-> TRUE]
  ELSE PrintRows(sorted, sp, i + 1, Append(acc, Row(sorted[i], sp)))

----------------------------------------------------------------------------
(* Inputs: the command line, the site lookup, the providers' answers *)

Point(la, lo) == [lat |-> la, lon |-> lo]

Annecy == Point(Tenths(459), Tenths(69))

Sydney == Point(0 - Tenths(339), Tenths(1512))

Colorado == Point(Deg(40), 0 - Deg(105))

Paris == Point(Deg(48), Deg(2))

\* targets inside and outside the coverage checks of query_nws and query_bom
Targets ==
  { Annecy, Sydney, Paris, Colorado,
    Point(0, 0),                               \* where an absent key's 0 lies
    Point(Tenths(612), 0 - Tenths(1499)),      \* Alaska
    Point(Tenths(213), 0 - Tenths(1578)),      \* Hawaii
    Point(Tenths(505), 0 - Deg(100)),          \* between the US and Alaska bands
    Point(Deg(50), 0 - Deg(67)) }              \* a corner of the US box

\* sys.argv: nothing, "LAT,LON", a malformed "LAT,LON", or a site name
ArgvInputs ==
  { [kind |-> k, lat |-> 0, lon |-> 0] : k \in {"none", "badcoords", "name"} }
    \cup { [kind |-> "coords", lat |-> t.lat, lon |-> t.lon] : t \in Targets }

\* what the site search can answer
PgeResponses ==
  { [kind |-> k, lat |-> 0, lon |-> 0] :
      k \in {"neterr", "403", "http_error", "badjson", "nofeatures", "nulllat"} }
    \cup { [kind |-> "found", lat |-> t.lat, lon |-> t.lon] :
             t \in {Sydney, Paris} }

\* At(t, dlat, dlon, n): a well-formed record dlat, dlon units from t
At(t, dlat, dlon, n) == RawRecord("ok", t.lat + dlat, t.lon + dlon, n)

\* The records the providers hold.  The beacon and the community networks
\* have stations around Annecy, the METAR network around Annecy, in
\* Colorado and in Sydney, the US weather service in Colorado.  Two of the
\* Annecy records (A, B) are 2 units (0.00004 degree) apart; one (F) lies
\* beyond the radius.
FfvlPool ==
  { At(Annecy, 1000, 500, "A"),
    At(Annecy, 10000, 0, None),
    RawRecord("null", 0, 0, "X"),
    RawRecord("missing", 0, 0, Missing) }

PioupiouPool ==
  { At(Annecy, 998, 500, "B"),
    At(Annecy, 0 - 1000, 0 - 500, "C"),
    RawRecord("missing", 0, 0, "X") }

AwcPool ==
  { At(Annecy, 25000, 0, "F (LSGG)"),
    At(Colorado, 1000, 500, "K (KBDU)"),
    At(Sydney, 1000, 500, "S (YSSY)"),
    RawRecord("null", 0, 0, None) }

NwsPool ==
  { At(Colorado, 1000, 500, "K"),
    RawRecord("null", 0, 0, "X"),
    RawRecord("missing", 0, 0, "X") }

StationsAnswers(la, lo, resp1) ==
  IF resp1.kind = "ok" /\ resp1.url THEN HttpResponses(NwsPool)
  ELSE {NoAnswer}

----------------------------------------------------------------------------
(* search_pge_site *)

SiteInfo(found, la, lo, msg) ==
  [found |-> found, lat |-> la, lon |-> lo, msg |-> msg]

\* None on a 403, on any exception, on no features, on a null lat or lng
search_pge_site(resp) ==
  CASE resp.kind = "403" -> SiteInfo(FALSE, 0, 0, {<<"PGE 403", "">>})
    [] resp.kind \in {"neterr", "http_error", "badjson"} ->
         SiteInfo(FALSE, 0, 0, {<<"Error searching PGE", "">>})
    [] resp.kind \in {"nofeatures", "nulllat"} -> SiteInfo(FALSE, 0, 0, {})
    [] OTHER -> SiteInfo(TRUE, resp.lat, resp.lon, {})

----------------------------------------------------------------------------
(* main *)

Init ==
  /\ pc = "start"
  /\ argv \in ArgvInputs
  /\ lat = Unset
  /\ lon = Unset
  /\ providers = <<>>
  /\ station_providers = <<>>
  /\ all_stations = <<>>
  /\ sorted_stations = <<>>
  /\ diag = {}
  /\ summary = <<>>
  /\ header = <<>>
  /\ rows = <<>>
  /\ netlog = <<>>
  /\ exit_code = 0 - 1
  /\ response = <<>>

\* sys.exit(1) after the message
Exit1(msgs) ==
  /\ pc' = "exit"
  /\ exit_code' = 1
  /\ diag' = diag \cup msgs
  /\ UNCHANGED <<lat, lon>>

\* the usage check and the target: literal coordinates or the site search
Resolve ==
  /\ pc = "start"
  /\ CASE argv.kind = "none" ->
            Exit1({<<"Usage", "">>}) /\ UNCHANGED netlog
       [] argv.kind = "badcoords" ->
            Exit1({<<"Invalid coordinates format", "Use: LAT,LON">>})
              /\ UNCHANGED netlog
       [] argv.kind = "coords" ->
            /\ lat' = argv.lat
            /\ lon' = argv.lon
            /\ pc' = "query_ffvl"
            /\ UNCHANGED <<diag, netlog, exit_code>>
       [] OTHER ->
            \E resp \in PgeResponses :
              LET site_info == search_pge_site(resp)
                  answered  == resp.kind \in {"nofeatures", "nulllat", "found"}
              IN  /\ netlog' = Append(netlog,
                                      Request("PGE", "search",
                                              IF answered THEN "ok" ELSE "fail"))
                  /\ IF ~site_info.found
                     THEN Exit1(site_info.msg \cup
                                  {<<"Site not found", "">>,
                                   <<"Tip", "provide coordinates directly">>})
                     ELSE /\ lat' = site_info.lat
                          /\ lon' = site_info.lon
                          /\ pc' = "query_ffvl"
                          /\ diag' = diag \cup site_info.msg
                          /\ UNCHANGED exit_code
  /\ UNCHANGED <<argv, providers, station_providers, all_stations,
                 sorted_stations, summary, header, rows, response>>

\* one entry of the providers dict literal: the adapter returns its stations
\* list; its prints and its requests are its only other effects.  response
\* is the record list the adapter's loop was given (<<>> when it got none).
Queried(provider_name, out, data, next) ==
  /\ providers' = providers @@ (provider_name :> out.stations)
  /\ diag' = diag \cup (IF out.error
                        THEN {<<"Error querying", provider_name>>} ELSE {})
                  \cup (IF out.note THEN {<<"Note", provider_name>>} ELSE {})
  /\ netlog' = netlog \o out.requests
  /\ pc' = next
  /\ response' = data
  /\ UNCHANGED <<argv, lat, lon, station_providers, all_stations,
                 sorted_stations, summary, header, rows, exit_code>>

QueryFfvl ==
  /\ pc = "query_ffvl"
  /\ \E resp \in HttpResponses(FfvlPool) :
       Queried("FFVL Beacons", query_ffvl(lat, lon, SEARCH_RADIUS_KM, resp),
               resp.data, "query_pioupiou")

QueryPioupiou ==
  /\ pc = "query_pioupiou"
  /\ \E resp \in HttpResponses(PioupiouPool) :
       Queried("Pioupiou", query_pioupiou(lat, lon, SEARCH_RADIUS_KM, resp),
               resp.data, "query_awc_metar")

QueryAwcMetar ==
  /\ pc = "query_awc_metar"
  /\ \E resp \in HttpResponses(AwcPool) :
       Queried("AWC METAR", query_awc_metar(lat, lon, SEARCH_RADIUS_KM, resp),
               resp.data, "query_nws")

QueryNws ==
  /\ pc = "query_nws"
  /\ \E resp1 \in PointsAnswers(lat, lon) :
       \E resp2 \in StationsAnswers(lat, lon, resp1) :
         LET out == query_nws(lat, lon, SEARCH_RADIUS_KM, resp1, resp2)
         IN  Queried("NWS", out,
                     IF Len(out.requests) = 2 THEN resp2.data ELSE <<>>,
                     "query_bom")

QueryBom ==
  /\ pc = "query_bom"
  /\ Queried("BOM", query_bom(lat, lon, SEARCH_RADIUS_KM), <<>>, "aggregate")

\* step 3
Aggregate ==
  /\ pc = "aggregate"
  /\ LET agg == Merge(provider_names, providers)
     IN  /\ station_providers' = agg.station_providers
         /\ all_stations' = agg.all_stations
  /\ pc' = "summary"
  /\ UNCHANGED <<argv, lat, lon, providers, sorted_stations, diag, summary,
                 header, rows, netlog, exit_code, response>>

\* step 4, and the empty case that opens step 5
Summary ==
  /\ pc = "summary"
  /\ summary' = <<[total  |-> Len(all_stations),
                   counts |-> [p \in DOMAIN providers |-> Len(providers[p])]]>>
  /\ IF Len(all_stations) = 0
     THEN /\ diag' = diag \cup {<<"No weather stations found", "">>}
          /\ pc' = "done"
          /\ exit_code' = 0
     ELSE /\ pc' = "report"
          /\ UNCHANGED <<diag, exit_code>>
  /\ UNCHANGED <<argv, lat, lon, providers, station_providers, all_stations,
                 sorted_stations, header, rows, netlog, response>>

\* step 5: the sort, the header, the rows
Report ==
  /\ pc = "report"
  /\ LET sorted  == SortByDistance(all_stations)
         printed == PrintRows(sorted, station_providers, 1, <<>>)
     IN  /\ sorted_stations' = sorted
         /\ header' = provider_names
         /\ rows' = printed.rows
         /\ IF printed.raised
            THEN pc' = "crashed" /\ exit_code' = 1
            ELSE pc' = "done" /\ exit_code' = 0
  /\ UNCHANGED <<argv, lat, lon, providers, station_providers, all_stations,
                 diag, summary, netlog, response>>

Next ==
  \/ Resolve
  \/ QueryFfvl
  \/ QueryPioupiou
  \/ QueryAwcMetar
  \/ QueryNws
  \/ QueryBom
  \/ Aggregate
  \/ Summary
  \/ Report

Spec == Init /\ [][Next]_vars

----------------------------------------------------------------------------
(* Step 3 onwards on two records around (0, 0) *)

KeyCoords == (0 - KeyWindow)..KeyWindow

\* main past its adapters for the target "0,0": the beacon network and the
\* community network returned one station each, anywhere in the window
InitKey ==
  /\ pc = "aggregate"
  /\ argv = [kind |-> "coords", lat |-> 0, lon |-> 0]
  /\ lat = 0
  /\ lon = 0
  /\ \E la1 \in KeyCoords, lo1 \in KeyCoords, la2 \in KeyCoords, lo2 \in KeyCoords :
       providers =
         [p \in ProviderSet |->
            CASE p = "FFVL Beacons" ->
                   <<Station("A", la1, lo1,
                             Round1(haversine_distance(0, 0, la1, lo1)))>>
              [] p = "Pioupiou" ->
                   <<Station("B", la2, lo2,
                             Round1(haversine_distance(0, 0, la2, lo2)))>>
              [] OTHER -> <<>>]
  /\ station_providers = <<>>
  /\ all_stations = <<>>
  /\ sorted_stations = <<>>
  /\ diag = {}
  /\ summary = <<>>
  /\ header = <<>>
  /\ rows = <<>>
  /\ netlog = <<Request("FFVL Beacons", "balises/list", "ok"),
                Request("Pioupiou", "live-with-meta/all", "ok"),
                Request("AWC METAR", "metar?bbox", "ok")>>
  /\ exit_code = 0 - 1
  /\ response = <<>>

NextKey ==
  \/ Aggregate
  \/ Summary
  \/ Report

SpecKey == InitKey /\ [][NextKey]_vars

----------------------------------------------------------------------------
(* Notions the properties share *)

AdaptersDone == DOMAIN providers = ProviderSet

Aggregated == pc \in {"summary", "report", "done", "crashed"}

Ended == pc \in {"done", "crashed"}

\* the orders in which the merge loop could take the providers
Orders ==
  { [i \in 1..Len(provider_names) |-> provider_names[f[i]]] :
      f \in Permutations(1..Len(provider_names)) }

\* the keys of the records a provider returned
KeysOf(p) == { station_key(providers[p][i]) : i \in 1..Len(providers[p]) }

AllKeys == UNION { KeysOf(p) : p \in DOMAIN providers }

EntryKeys(al) == { al[i].key : i \in 1..Len(al) }

\* the entry of key k in an insertion-ordered dict
Entry(al, k) == al[CHOOSE i \in 1..Len(al) : al[i].key = k].station

Coords(recs) == [i \in DOMAIN recs |-> <<recs[i].lat, recs[i].lon>>]

\* the well-formed records of a response that lie within the radius
WithinRadius(rec) ==
  /\ rec.c = "ok"
  /\ haversine_distance(lat, lon, rec.lat, rec.lon) <= SEARCH_RADIUS_KM * 1000

\* the provider whose answer response holds
LastQueried ==
  CASE pc = "query_pioupiou"  -> "FFVL Beacons"
    [] pc = "query_awc_metar" -> "Pioupiou"
    [] pc = "query_nws"       -> "AWC METAR"
    [] pc = "query_bom"       -> "NWS"
    [] OTHER                  -> "none"

----------------------------------------------------------------------------
(* C1 *)

\* C1: an adapter never raises to main (each query step is followed by the
\* next one), and an adapter whose except branch ran, for a request error,
\* a non-2xx status, malformed JSON or a failure inside the record loop,
\* returned the empty list; the remaining adapters are still invoked.
C1_FailureGivesEmpty ==
  /\ \A p \in DOMAIN providers :
       <<"Error querying", p>> \in diag => Len(providers[p]) = 0
  /\ (pc \in {"aggregate", "summary", "report", "done", "crashed"}
        => AdaptersDone)

----------------------------------------------------------------------------
(* C2 *)

\* C2: after a record-parsing adapter has run, the stations it returned are
\* exactly the well-formed records of its response within the radius, in
\* their order: a record with missing or null coordinates gave no station
\* and cost no other record its place.
C2_MalformedRecordSkipped ==
  LastQueried # "none" =>
    Coords(providers[LastQueried]) = Coords(SelectSeq(response, WithinRadius))

----------------------------------------------------------------------------
(* C3 *)

\* C3: whatever the order in which the merge loop takes the providers, the
\* StationKeys and each key's observed_by set are those main computed, and
\* observed_by of a key is the set of providers that returned a record
\* with that key.
C3_MergeCommutes ==
  Aggregated =>
    /\ \A order \in Orders :
         Merge(order, providers).station_providers = station_providers
    /\ DOMAIN station_providers = AllKeys
    /\ EntryKeys(all_stations) = AllKeys
    /\ \A k \in AllKeys :
         station_providers[k] = { p \in DOMAIN providers : k \in KeysOf(p) }

\* a merge of two keys, one of them reported by two providers or more
C3_Witness ==
  /\ Aggregated
  /\ Cardinality(AllKeys) >= 2
  /\ \E k \in AllKeys : Cardinality(station_providers[k]) >= 2

----------------------------------------------------------------------------
(* C4 *)

KeyNum(f) == IF f.neg THEN 0 - f.mag ELSE f.mag

KeyLess(k1, k2) ==
  \/ KeyNum(k1[1]) < KeyNum(k2[1])
  \/ KeyNum(k1[1]) = KeyNum(k2[1]) /\ KeyNum(k1[2]) < KeyNum(k2[2])

\* C4: the rows are the aggregated stations in ascending order of distance,
\* and of two stations at the same distance the one with the smaller
\* StationKey comes first.
C4_RowsByDistanceThenKey ==
  Ended /\ Len(header) > 0 =>
    /\ EntryKeys(sorted_stations) = EntryKeys(all_stations)
    /\ \A i, j \in 1..Len(sorted_stations) :
         i < j =>
           LET a == sorted_stations[i]
               b == sorted_stations[j]
           IN  \/ a.station.distance_km < b.station.distance_km
               \/ /\ a.station.distance_km = b.station.distance_km
                  /\ KeyLess(a.key, b.key)

----------------------------------------------------------------------------
(* C5 *)

RECURSIVE Concat(_, _, _)
Concat(order, provs, j) ==
  IF j > Len(order) THEN <<>>
  ELSE provs[order[j]] \o Concat(order, provs, j + 1)

\* the first record with key k of a sequence of records
FirstWithKey(recs, k) ==
  recs[CHOOSE i \in 1..Len(recs) :
         /\ station_key(recs[i]) = k
         /\ \A j \in 1..(i - 1) : station_key(recs[j]) # k]

\* the distances the records of key k carry, over all providers
DistancesOf(k) ==
  UNION { { providers[p][i].distance_km :
              i \in { n \in 1..Len(providers[p]) :
                        station_key(providers[p][n]) = k } } :
          p \in DOMAIN providers }

\* C5 as written: in every processing order each StationKey ends with the
\* distance main's order gave it.
C5_DistanceOrderFree ==
  Aggregated =>
    \A order \in Orders : \A k \in AllKeys :
      Entry(Merge(order, providers).all_stations, k).distance_km
        = Entry(all_stations, k).distance_km

\* C5 as amended: in every processing order each StationKey ends with the
\* record seen first in that order, hence with that record's distance; the
\* distance is the same in all orders for every key whose records all carry
\* one distance.
C5_FirstSeenDistance ==
  Aggregated =>
    \A order \in Orders : \A k \in AllKeys :
      LET e == Entry(Merge(order, providers).all_stations, k)
      IN  /\ e = FirstWithKey(Concat(order, providers, 1), k)
          /\ (Cardinality(DistancesOf(k)) = 1
                => e.distance_km = Entry(all_stations, k).distance_km)

\* two providers returned records of one key with different distances
C5_Witness ==
  /\ Aggregated
  /\ \E k \in AllKeys :
       /\ Cardinality(station_providers[k]) >= 2
       /\ Cardinality(DistancesOf(k)) >= 2

----------------------------------------------------------------------------
(* C7 *)

\* the envelopes the claim names, in degrees
InBox(la, lo, lon_min, lon_max, lat_min, lat_max) ==
  /\ lon_min * 50000 <= lo /\ lo <= lon_max * 50000
  /\ lat_min * 50000 <= la /\ la <= lat_max * 50000

UsEnvelopes(la, lo) ==
  \/ InBox(la, lo, 0 - 125, 0 - 67, 24, 50)
  \/ InBox(la, lo, 0 - 180, 0 - 130, 51, 72)
  \/ InBox(la, lo, 0 - 178, 0 - 154, 18, 29)

NwsRequests == { i \in 1..Len(netlog) : netlog[i].provider = "NWS" }

\* C7: for a target outside the three envelopes query_nws returns the empty
\* list and no request to the service is ever issued; the station-list
\* request is issued only right after a points request that succeeded, and
\* a 404 on the points request gives the empty list and no second request.
C7_NwsShortCircuit ==
  /\ (lat # Unset /\ ~UsEnvelopes(lat, lon)) =>
       /\ NwsRequests = {}
       /\ ("NWS" \in DOMAIN providers => Len(providers["NWS"]) = 0)
  /\ \A i \in NwsRequests :
       /\ UsEnvelopes(lat, lon)
       /\ netlog[i].endpoint = "observationStations" =>
            /\ i - 1 \in NwsRequests
            /\ netlog[i - 1].endpoint = "points"
            /\ netlog[i - 1].outcome = "ok"
       /\ (netlog[i].endpoint = "points" /\ netlog[i].outcome = "404") =>
            /\ Cardinality(NwsRequests) = 1
            /\ ("NWS" \in DOMAIN providers => Len(providers["NWS"]) = 0)
  /\ ("NWS" \in DOMAIN providers /\ Len(providers["NWS"]) > 0) =>
       Cardinality(NwsRequests) = 2

\* query_nws has run for Paris, while other adapters did use the network
C7_Witness ==
  /\ "NWS" \in DOMAIN providers
  /\ lat = Deg(48) /\ lon = Deg(2)
  /\ ~UsEnvelopes(lat, lon)
  /\ Len(netlog) > 0

----------------------------------------------------------------------------
(* C8 *)

BomColumn == CHOOSE i \in 1..Len(provider_names) : provider_names[i] = "BOM"

\* C8: query_bom returns the empty list and issues no request, its note is
\* printed only for a target inside the Australia envelope, and the provider
\* stays in the comparison: in the providers mapping once the adapters have
\* run, in the summary's counts, in the header and in every row.
C8_BomStub ==
  /\ "BOM" \in DOMAIN providers => Len(providers["BOM"]) = 0
  /\ \A i \in 1..Len(netlog) : netlog[i].provider # "BOM"
  /\ <<"Note", "BOM">> \in diag =>
       /\ "BOM" \in DOMAIN providers
       /\ InBox(lat, lon, 113, 154, 0 - 44, 0 - 10)
  /\ (pc \in {"aggregate", "summary", "report", "done", "crashed"}
        => "BOM" \in DOMAIN providers)
  /\ \A i \in 1..Len(summary) :
       /\ "BOM" \in DOMAIN summary[i].counts
       /\ summary[i].counts["BOM"] = 0
  /\ (Len(header) > 0 => header[BomColumn] = "BOM")
  /\ \A i \in 1..Len(rows) :
       /\ Len(rows[i].checks) = Len(header)
       /\ rows[i].checks[BomColumn] = FALSE

\* a finished run for an Australian target: the note, the summary and a
\* table with rows are out
C8_Witness ==
  /\ pc = "done"
  /\ <<"Note", "BOM">> \in diag
  /\ Len(summary) = 1
  /\ Len(rows) > 0

----------------------------------------------------------------------------
(* C9 *)

AllEmpty == \A p \in DOMAIN providers : Len(providers[p]) = 0

\* C9: at the end of a run that queried the providers, if every provider
\* returned the empty list the no-stations message is out and neither header
\* nor rows are; the header is out exactly when some provider returned a
\* station, and then there is one row for each distinct StationKey.
C9_EmptyCase ==
  Ended =>
    /\ AllEmpty =>
         /\ <<"No weather stations found", "">> \in diag
         /\ Len(header) = 0
         /\ Len(rows) = 0
    /\ (Len(header) > 0 <=> ~AllEmpty)
    /\ (Len(header) > 0 => Len(rows) = Cardinality(AllKeys))

----------------------------------------------------------------------------
(* C10 *)

ProviderRequests == { i \in 1..Len(netlog) : netlog[i].provider # "PGE" }

\* C10: a run that ends on an input error has exit status 1, printed a hint
\* and invoked no adapter; an adapter is invoked only with the target
\* resolved; and once an adapter was invoked the run does not end in failure.
C10_OnlyInputErrorsFail ==
  /\ pc = "exit" =>
       /\ exit_code = 1
       /\ DOMAIN providers = {}
       /\ ProviderRequests = {}
       /\ \/ <<"Usage", "">> \in diag
          \/ <<"Invalid coordinates format", "Use: LAT,LON">> \in diag
          \/ <<"Tip", "provide coordinates directly">> \in diag
  /\ (DOMAIN providers # {} \/ pc \notin {"start", "exit"}) =>
       lat # Unset /\ lon # Unset
  /\ DOMAIN providers # {} => (pc # "crashed" /\ exit_code # 1)

----------------------------------------------------------------------------
(* C6 *)

\* the two records of the StationKey runs
KeyRec1 == providers["FFVL Beacons"][1]

KeyRec2 == providers["Pioupiou"][1]

\* less than 0.00005 degree (2.5 units); more than 0.0001 degree (5 units)
LessThanHalfStep(d) == 2 * d < 5

MoreThanStep(d) == d > 5

\* both values are on one side of zero and less than 0.00005 degree from
\* one multiple of 0.0001 degree
SameCell(x, y) ==
  /\ (x < 0 <=> y < 0)
  /\ \E n \in KeyCoords :
       LessThanHalfStep(Abs(x - 5 * n)) /\ LessThanHalfStep(Abs(y - 5 * n))

\* C6 as written: two records less than 0.00005 degree apart in each axis
\* have one StationKey, two records more than 0.0001 degree apart in some
\* axis have two.
C6_KeyThresholds ==
  Aggregated =>
    /\ (LessThanHalfStep(Abs(KeyRec1.lat - KeyRec2.lat))
          /\ LessThanHalfStep(Abs(KeyRec1.lon - KeyRec2.lon)))
         => Len(all_stations) = 1
    /\ (MoreThanStep(Abs(KeyRec1.lat - KeyRec2.lat))
          \/ MoreThanStep(Abs(KeyRec1.lon - KeyRec2.lon)))
         => Len(all_stations) = 2

\* C6 as amended: two records more than 0.0001 degree apart in some axis
\* have two StationKeys; two records that, in each axis, are on one side of
\* zero and less than 0.00005 degree from one multiple of 0.0001 degree
\* have one StationKey.
C6_KeyCells ==
  Aggregated =>
    /\ (SameCell(KeyRec1.lat, KeyRec2.lat) /\ SameCell(KeyRec1.lon, KeyRec2.lon))
         => (Len(all_stations) = 1
               /\ DOMAIN station_providers = {station_key(KeyRec1)}
               /\ station_providers[station_key(KeyRec1)]
                    = {"FFVL Beacons", "Pioupiou"})
    /\ (MoreThanStep(Abs(KeyRec1.lat - KeyRec2.lat))
          \/ MoreThanStep(Abs(KeyRec1.lon - KeyRec2.lon)))
         => Len(all_stations) = 2

\* two records with different coordinates in both axes merged into one key
C6_Witness ==
  /\ Aggregated
  /\ KeyRec1.lat # KeyRec2.lat
  /\ KeyRec1.lon # KeyRec2.lon
  /\ SameCell(KeyRec1.lat, KeyRec2.lat)
  /\ SameCell(KeyRec1.lon, KeyRec2.lon)
  /\ Len(all_stations) = 1

====
